---- MODULE Spec2Model ----
(***************************************************************************)
(* The canvas state machine of canvas-be: the chat routes                  *)
(* (api/chat_routes.py), the canvas management route                       *)
(* (api/canvas_routes.py), the PostgreSQL store (db/postgres_store.py),    *)
(* the Responses service (services/responses_service.py), the response    *)
(* parser and validator (utils/json_parser.py) and the prompt builders     *)
(* (utils/prompts.py).                                                     *)
(*                                                                         *)
(* Texts are sequences of tokens: a token is a word, a run of whitespace   *)
(* or one of the literal marker strings the code splits on.  JSON values   *)
(* are records [t, e, n]: the type, the text or element encoding, and the  *)
(* length of a list.                                                       *)
(***************************************************************************)
EXTENDS Integers, Sequences, FiniteSets, TLC

VARIABLES canvas, canvas_fields, manual_update, issued, responses, response_count,
          file_store, last, call, returned, proc, log

vars == <<canvas, canvas_fields, manual_update, issued, responses, response_count,
          file_store, last, call, returned, proc, log>>

\* ------------------------------------------------------------------ bounds
\* Responses the LLM collaborator creates in one behaviour.
MaxResponses == 2
\* Files the file collaborator stores in one behaviour.
MaxUploads == 1

\* Every statement of the store carries WHERE canvas_id = ..., so a handler
\* reads and writes the rows of one canvas only: the model follows one canvas
\* id, which is unknown to the store before it is issued and after its delete.
CanvasIds == {"c1"}

\* ------------------------------------------------------------- JSON values
Val(t, e, n) == [t |-> t, e |-> e, n |-> n]
Absent == Val("absent", "", 0)
Null == Val("null", "", 0)
Str(s) == Val("str", s, 0)
\* a list of n elements; e is the shape of the elements: "str" plain strings,
\* "obj" JSON objects, "json" strings holding json.dumps of an object
List(e, n) == Val("list", e, n)
Dict(e) == Val("dict", e, 0)

IsStr(v) == v.t = "str"
IsList(v) == v.t = "list"
IsDict(v) == v.t = "dict"

\* The keys of a canvas JSON object as the LLM and the validator name them.
CanvasKeys ==
    {"Title", "Problem Statement", "Objectives", "KPIs", "Success Criteria",
     "Key Features", "Risks", "Assumptions", "Non Functional Requirements",
     "Use Cases", "Governance", "Relevant Facts", "Tags"}

\* The field names of the pydantic model CanvasFieldList.
FieldNames ==
    {"Title", "Problem_Statement", "Objectives", "KPIs", "Success_Criteria",
     "Key_Features", "Risks", "Assumptions", "Non_Functional_Requirements",
     "Use_Cases", "Governance", "Relevant_Facts"}

AllKeys == CanvasKeys \cup FieldNames

\* A JSON object: every key of AllKeys mapped to its value, Absent when the
\* object has no such key.
EmptyObject == [k \in AllKeys |-> Absent]

Get(obj, k, default) == IF obj[k] = Absent THEN default ELSE obj[k]

\* ------------------------------------------------------------------- texts
SP == " "
CHAT_MARKER == "---CHAT_RESPONSE---"
JSON_MARKER == "---CANVAS_JSON---"
\* the opening code fence of a JSON block and the bare code fence
FENCE_JSON == "<fence>json"
FENCE == "<fence>"
LBRACE == "{"
RBRACE == "}"
UPS == "USER PROBLEM STATEMENT:"
UM == "USER MESSAGE:"
\* the two markers below start with a blank line in the source
PLEASE_GENERATE == "Please generate"
REFINEMENT_INSTRUCTIONS == "REFINEMENT INSTRUCTIONS:"

IsSpace(tok) == tok = SP

\* str.strip(): leading and trailing whitespace removed
RECURSIVE LStrip(_)
LStrip(s) == IF s # <<>> /\ IsSpace(Head(s)) THEN LStrip(Tail(s)) ELSE s

RECURSIVE RStrip(_)
RStrip(s) ==
    IF s # <<>> /\ IsSpace(s[Len(s)]) THEN RStrip(SubSeq(s, 1, Len(s) - 1)) ELSE s

\* faulty variant: the message is tested without strip()
Strip_omitted(s) == s

Strip(s) == RStrip(LStrip(s))

Contains(s, tok) == \E i \in 1..Len(s) : s[i] = tok

\* str.split(sep): the pieces between the occurrences of sep
RECURSIVE SplitAcc(_, _, _)
SplitAcc(s, sep, cur) ==
    IF s = <<>> THEN <<cur>>
    ELSE IF Head(s) = sep THEN <<cur>> \o SplitAcc(Tail(s), sep, <<>>)
    ELSE SplitAcc(Tail(s), sep, Append(cur, Head(s)))

Split(s, sep) == SplitAcc(s, sep, <<>>)

\* re.sub of the two fence patterns by the empty string: an opening JSON fence
\* goes with the whitespace after it, a bare fence with the whitespace before it
RECURSIVE RemoveFences(_)
RemoveFences(s) ==
    IF s = <<>> THEN <<>>
    ELSE IF Head(s) = FENCE_JSON THEN RemoveFences(LStrip(Tail(s)))
    ELSE IF LStrip(s) # <<>> /\ Head(LStrip(s)) = FENCE THEN RemoveFences(Tail(LStrip(s)))
    ELSE <<Head(s)>> \o RemoveFences(Tail(s))

\* ------------------------------------------------------- canvas candidates
\* The JSON objects the texts of this model can carry, by the token that
\* stands for the members of the object.
Full(title) ==
    [EmptyObject EXCEPT
        !["Title"] = Str(title),
        !["Problem Statement"] = Str("problem"),
        !["Objectives"] = List("str", 1),
        !["KPIs"] = List("obj", 1),
        !["Success Criteria"] = List("str", 1),
        !["Key Features"] = List("obj", 1),
        !["Risks"] = List("obj", 1),
        !["Assumptions"] = List("str", 1),
        !["Non Functional Requirements"] = List("str", 1),
        !["Use Cases"] = List("obj", 1),
        !["Governance"] = Dict("gov")]

JsonBodies == {"K1", "K2", "K3"}

JsonObject(body) ==
    CASE body = "K1" -> Full("T1")
      [] body = "K2" -> [Full("T2") EXCEPT !["Relevant Facts"] = List("str", 1)]
      \* no Title, no Governance, KPIs a string, plain strings as risks
      [] body = "K3" -> [Full("T1") EXCEPT !["Title"] = Absent,
                                            !["Governance"] = Absent,
                                            !["KPIs"] = Str("kpi"),
                                            !["Risks"] = List("str", 1)]

\* ------------------------------------------------------------------ parser
NoJson == [kind |-> "none", obj |-> EmptyObject]

FirstIndex(s, tok) == CHOOSE i \in 1..Len(s) : s[i] = tok /\ \A j \in 1..(i - 1) : s[j] # tok
LastIndex(s, tok) == CHOOSE i \in 1..Len(s) : s[i] = tok /\ \A j \in (i + 1)..Len(s) : s[j] # tok

\* json.loads: the text is one JSON value, or the call raises
json_loads(s) ==
    IF Len(s) = 3 /\ s[1] = LBRACE /\ s[3] = RBRACE /\ s[2] \in JsonBodies
        THEN [ok |-> TRUE, kind |-> "dict", obj |-> JsonObject(s[2])]
    ELSE IF s = <<LBRACE, RBRACE>>
        THEN [ok |-> TRUE, kind |-> "dict", obj |-> EmptyObject]
    ELSE IF s = <<"[1]">>
        THEN [ok |-> TRUE, kind |-> "list", obj |-> EmptyObject]
    ELSE IF s = <<"42">>
        THEN [ok |-> TRUE, kind |-> "number", obj |-> EmptyObject]
    ELSE IF s = <<"null">>
        THEN [ok |-> TRUE, kind |-> "null", obj |-> EmptyObject]
    ELSE [ok |-> FALSE, kind |-> "none", obj |-> EmptyObject]

\* a parser that loads the whole text once the fences are gone
parse_json_whole_text(text) == json_loads(Strip(RemoveFences(text)))

parse_json_from_text(text) ==
    LET t == Strip(RemoveFences(text))
        hasMatch == /\ Contains(t, LBRACE)
                    /\ Contains(t, RBRACE)
                    /\ FirstIndex(t, LBRACE) < LastIndex(t, RBRACE)
    IN  IF hasMatch
            THEN json_loads(SubSeq(t, FirstIndex(t, LBRACE), LastIndex(t, RBRACE)))
            ELSE json_loads(t)

\* ok = FALSE stands for the ValueError the function raises
parse_dual_response(response_text) ==
    LET parts == Split(response_text, JSON_MARKER)
    IN  IF Len(parts) # 2
            THEN [ok |-> FALSE, chat |-> <<>>, kind |-> "none", obj |-> EmptyObject]
        ELSE LET chat_part == parts[1]
                 chat_response ==
                     IF Contains(chat_part, CHAT_MARKER)
                         THEN Strip(Split(chat_part, CHAT_MARKER)[2])
                         ELSE Strip(chat_part)
                 j == parse_json_from_text(Strip(parts[2]))
             IN  [ok |-> j.ok, chat |-> IF j.ok THEN chat_response ELSE <<>>,
                  kind |-> j.kind, obj |-> j.obj]

\* -------------------------------------------------------------- validator
required_fields ==
    <<"Title", "Problem Statement", "Objectives", "KPIs", "Success Criteria",
      "Key Features", "Risks", "Assumptions", "Non Functional Requirements",
      "Use Cases", "Governance">>

array_fields ==
    <<"Objectives", "KPIs", "Success Criteria", "Key Features", "Risks",
      "Assumptions", "Non Functional Requirements", "Use Cases">>

SeqRange(s) == {s[i] : i \in 1..Len(s)}

\* a validator that only looks for the required keys
validate_errors_presence_only(canvas_data) ==
    {<<f, "missing">> : f \in {g \in SeqRange(required_fields) : canvas_data[g] = Absent}}

\* the errors the validator collects, as <<field, defect>> pairs
validate_errors(canvas_data) ==
    {<<f, "missing">> : f \in {g \in SeqRange(required_fields) : canvas_data[g] = Absent}}
    \cup {<<f, "must be a string">> :
            f \in {g \in {"Title", "Problem Statement"} :
                     canvas_data[g] # Absent /\ ~IsStr(canvas_data[g])}}
    \cup {<<f, "must be an array">> :
            f \in {g \in SeqRange(array_fields) :
                     canvas_data[g] # Absent /\ ~IsList(canvas_data[g])}}
    \cup {<<f, "must be an object">> :
            f \in {g \in {"Governance"} :
                     canvas_data[g] # Absent /\ ~IsDict(canvas_data[g])}}

validate_canvas_structure(canvas_data) ==
    [is_valid |-> validate_errors(canvas_data) = {}, errors |-> validate_errors(canvas_data)]

\* validate_canvas_structure on any value json.loads can give.  The function
\* starts with "field not in canvas_data": on an object that is the key
\* test, on the list [1] it is a search among the elements (no field is
\* found, and nothing is indexed), on a number or None it raises TypeError.
validate_canvas_structure_value(j) ==
    IF j.kind = "dict"
        THEN [raised |-> "none", value |-> validate_canvas_structure(j.obj)]
    ELSE IF j.kind = "list"
        THEN [raised |-> "none", value |-> validate_canvas_structure(EmptyObject)]
    ELSE [raised |-> "TypeError", value |-> [is_valid |-> FALSE, errors |-> {}]]

\* ------------------------------------------------------------------- store
\* The database as one value: the canvas table, the canvas_fields table and
\* the manual_update flag the chat routes read and write.
DB == [canvas |-> canvas, canvas_fields |-> canvas_fields, manual_update |-> manual_update]

NoRef == 0

HasCanvas(db, cid) == db.canvas[cid] # <<>>
Row(db, cid) == db.canvas[cid][1]
HasFields(db, cid) == db.canvas_fields[cid] # <<>>
Fields(db, cid) == db.canvas_fields[cid][1]

\* PostgresStore.create_canvas: thread_id is not among the inserted columns
create_canvas(db, cid, name, status) ==
    [db EXCEPT !.canvas[cid] =
        <<[name |-> name, status |-> status, thread_id |-> NoRef, file_ids |-> <<>>]>>]

update_canvas(db, cid, new_name, thread_id) ==
    IF HasCanvas(db, cid)
        THEN [db EXCEPT !.canvas[cid][1].name = new_name,
                        !.canvas[cid][1].thread_id = thread_id]
        ELSE db

\* faulty variant: a canvas that is not there is taken as a new one
get_canvas_or_new(db, cid) ==
    IF db.canvas[cid] = <<>>
        THEN <<[name |-> Str("Untitled Canvas"), status |-> "created",
                thread_id |-> NoRef, file_ids |-> <<>>]>>
        ELSE db.canvas[cid]

get_canvas(db, cid) == db.canvas[cid]

add_file_to_canvas(db, cid, file_id) ==
    IF HasCanvas(db, cid)
        THEN [db EXCEPT !.canvas[cid][1].file_ids = Append(@, file_id)]
        ELSE db

\* faulty variant: the UPDATE of the status is never committed
update_status_uncommitted(db, cid, action) == db

update_status(db, cid, action) ==
    IF HasCanvas(db, cid) THEN [db EXCEPT !.canvas[cid][1].status = action] ELSE db

\* the manual_update flag goes with the rows of the canvas
delete_canvas(db, cid) ==
    [db EXCEPT !.canvas_fields[cid] = <<>>, !.canvas[cid] = <<>>,
               !.manual_update[cid] = FALSE]

MkList(e, n) == IF n = 0 THEN List("", 0) ELSE List(e, n)

\* str(x) of each element: a plain string stays, an object becomes its repr
to_array(val) ==
    IF IsList(val) THEN MkList(IF val.e = "obj" THEN "repr" ELSE val.e, val.n)
    ELSE IF val # Null THEN MkList("str", 1)
    ELSE MkList("", 0)

\* json.dumps of each object, str(x) of anything else
dict_list_to_text_array(val) ==
    IF IsList(val) THEN MkList(IF val.e = "obj" THEN "json" ELSE val.e, val.n)
    ELSE MkList("", 0)

\* None becomes the empty object; any other value is stored as its JSON
to_jsonb(val) == IF val = Null THEN Dict("empty") ELSE val

\* canvas_data.get(key): None when the key is absent
GetNone(obj, k) == Get(obj, k, Null)

fields_of(canvas_data) ==
    [title |-> Get(canvas_data, "Title", Str("Untitled")),
     problem_statement |-> GetNone(canvas_data, "Problem Statement"),
     objectives |-> to_array(GetNone(canvas_data, "Objectives")),
     kpis |-> dict_list_to_text_array(GetNone(canvas_data, "KPIs")),
     success_criteria |-> to_array(GetNone(canvas_data, "Success Criteria")),
     key_features |-> dict_list_to_text_array(GetNone(canvas_data, "Key Features")),
     relevant_facts |-> to_array(Get(canvas_data, "Relevant Facts", MkList("", 0))),
     risks |-> dict_list_to_text_array(GetNone(canvas_data, "Risks")),
     assumptions |-> to_array(GetNone(canvas_data, "Assumptions")),
     non_functional_requirements |->
         to_jsonb(GetNone(canvas_data, "Non Functional Requirements")),
     use_cases |-> dict_list_to_text_array(GetNone(canvas_data, "Use Cases")),
     governance |-> to_jsonb(Get(canvas_data, "Governance", MkList("", 0))),
     tags |-> to_array(Get(canvas_data, "Tags", MkList("", 0)))]

\* a patching variant: a column whose key the candidate lacks keeps the value
\* the row had
upsert_canvas_fields_patching(db, cid, canvas_data) ==
    [db EXCEPT !.canvas_fields[cid] =
        IF db.canvas_fields[cid] # <<>> /\ canvas_data["Problem Statement"] = Absent
            THEN <<[fields_of(canvas_data) EXCEPT
                        !.problem_statement = db.canvas_fields[cid][1].problem_statement]>>
            ELSE <<fields_of(canvas_data)>>]

\* the row is updated when it exists and inserted when it does not: either
\* way every column takes the value computed from canvas_data
upsert_canvas_fields(db, cid, canvas_data) ==
    [db EXCEPT !.canvas_fields[cid] = <<fields_of(canvas_data)>>]

get_canvas_fields(db, cid) == db.canvas_fields[cid]

check_manual_update(db, cid) == db.manual_update[cid]

toggle_manual_update(db, cid, value) == [db EXCEPT !.manual_update[cid] = value]

\* ----------------------------------------------------------------- prompts
get_initial_canvas_prompt(problem_statement) ==
    <<UPS, SP>> \o problem_statement \o <<PLEASE_GENERATE, "initial instructions">>

\* the refinement prompt has no REFINEMENT INSTRUCTIONS section
get_refinement_prompt(user_message) ==
    <<UM, SP>> \o user_message \o <<"Please refine", "refinement instructions">>

\* parameters get_refinement_prompt declares
RefinementPromptParams == 1
\* arguments ResponsesService.send_message passes to it
RefinementPromptArgs == 2

\* the call raises TypeError when the argument count is not the parameter count
RefinementPromptCallRaises == RefinementPromptArgs # RefinementPromptParams

\* -------------------------------------------------------- responses service
\* A response of the LLM collaborator: its id, the id of its predecessor
\* (previous_response_id), the input text and the output text.  Ids are
\* issued in the order of the calls.  message is the literal message of the
\* user; the collaborator holds the prompt only, the message is kept to
\* compare the history with.
Response(id, prev, prompt, output, message) ==
    [id |-> id, prev |-> prev, prompt |-> prompt, output |-> output, message |-> message]

\* responses.retrieve
retrieve(resp, response_id) == CHOOSE r \in resp : r.id = response_id

\* The responses a canvas can still name: the one its thread_id holds and
\* the predecessors of that one.  A response outside this set can never be
\* retrieved again (its id is stored nowhere), so the model forgets it.
RECURSIVE Chain(_, _)
Chain(resp, response_id) ==
    IF response_id = NoRef \/ ~\E r \in resp : r.id = response_id THEN {}
    ELSE {response_id} \cup Chain(resp, retrieve(resp, response_id).prev)

Referenced(resp, db) ==
    {r \in resp : \E cid \in CanvasIds :
        db.canvas[cid] # <<>> /\ r.id \in Chain(resp, db.canvas[cid][1].thread_id)}

_extract_user_message(prompt_content) ==
    IF Contains(prompt_content, UPS) /\ Len(Split(prompt_content, UPS)) > 1
        THEN Strip(Split(Split(prompt_content, UPS)[2], PLEASE_GENERATE)[1])
    ELSE IF Contains(prompt_content, UM) /\ Len(Split(prompt_content, UM)) > 1
        THEN Strip(Split(Split(prompt_content, UM)[2], REFINEMENT_INSTRUCTIONS)[1])
    ELSE prompt_content

Entry(role, content) == [role |-> role, content |-> content]

RECURSIVE Reverse(_)
Reverse(s) == IF s = <<>> THEN <<>> ELSE Append(Reverse(Tail(s)), Head(s))

\* the backward walk: the assistant entry, then the user entry of each
\* response, from the newest response to the one without a predecessor
RECURSIVE HistoryWalk(_, _)
HistoryWalk(resp, previous_response_id) ==
    IF previous_response_id = NoRef THEN <<>>
    ELSE LET response == retrieve(resp, previous_response_id)
             parsed == parse_dual_response(response.output)
         IN  <<Entry("assistant", IF parsed.ok THEN parsed.chat ELSE response.output),
               Entry("user", _extract_user_message(response.prompt))>>
             \o HistoryWalk(resp, response.prev)

get_conversation_history(resp, previous_response_id) ==
    Reverse(HistoryWalk(resp, previous_response_id))

\* ---------------------------------------------------------- CanvasFieldList
StrList(v) == IsList(v) /\ v.e \in {"", "str", "repr", "json"}
ObjList(v) == IsList(v) /\ v.e \in {"", "obj"}

\* CanvasFieldList validation of a request body, keys by their aliases
model_validate(o) ==
    /\ IsStr(o["Title"])
    /\ IsStr(o["Problem Statement"])
    /\ StrList(o["Objectives"])
    /\ ObjList(o["KPIs"])
    /\ StrList(o["Success Criteria"])
    /\ ObjList(o["Key Features"])
    /\ ObjList(o["Risks"])
    /\ StrList(o["Assumptions"])
    /\ o["Non Functional Requirements"] = Dict("nfr")
    /\ ObjList(o["Use Cases"])
    /\ (o["Governance"] \in {Absent, Null} \/ IsDict(o["Governance"]))
    /\ (o["Relevant Facts"] \in {Absent, Null} \/ StrList(o["Relevant Facts"]))

\* the field name a key is dumped under: validation aliases are not used
\* when the model is serialized
FieldNameOf(k) ==
    CASE k = "Problem Statement" -> "Problem_Statement"
      [] k = "Success Criteria" -> "Success_Criteria"
      [] k = "Key Features" -> "Key_Features"
      [] k = "Non Functional Requirements" -> "Non_Functional_Requirements"
      [] k = "Use Cases" -> "Use_Cases"
      [] k = "Relevant Facts" -> "Relevant_Facts"
      [] OTHER -> k

\* model_dump(by_alias=True, exclude_unset=True): the fields that were set,
\* under their field names
model_dump(o) ==
    [k \in AllKeys |->
        IF \E a \in CanvasKeys \ {"Tags"} : FieldNameOf(a) = k /\ o[a] # Absent
            THEN o[CHOOSE a \in CanvasKeys \ {"Tags"} : FieldNameOf(a) = k /\ o[a] # Absent]
            ELSE Absent]

\* text_array_to_dict_list: json.loads of every item; raises on an item that
\* is no JSON text
LoadsRaises(col) == IsList(col) /\ col.n > 0 /\ col.e # "json"
text_array_to_dict_list(col) == IF IsList(col) THEN MkList("obj", col.n) ELSE MkList("", 0)

\* CanvasFieldList validation of the stored row (keys are the column names)
StoredValidates(f) ==
    /\ IsStr(f.title)
    /\ IsStr(f.problem_statement)
    /\ StrList(f.objectives)
    /\ StrList(f.success_criteria)
    /\ StrList(f.assumptions)
    /\ f.non_functional_requirements = Dict("nfr")
    /\ IsDict(f.governance)
    /\ StrList(f.relevant_facts)

\* the current canvas handed to the prompt: <<>> for None
NoContext == <<>>

current_canvas_context(f) ==
    IF StoredValidates(f)
        THEN <<[title |-> f.title,
                problem_statement |-> f.problem_statement,
                objectives |-> f.objectives,
                kpis |-> text_array_to_dict_list(f.kpis),
                success_criteria |-> f.success_criteria,
                key_features |-> text_array_to_dict_list(f.key_features),
                risks |-> text_array_to_dict_list(f.risks),
                assumptions |-> f.assumptions,
                non_functional_requirements |-> f.non_functional_requirements,
                use_cases |-> text_array_to_dict_list(f.use_cases)]>>
        ELSE NoContext

\* ------------------------------------------------------------ file service
\* upload_files: the files are checked and uploaded one after the other; a
\* rejected file raises ValueError, an upload that fails is skipped
RECURSIVE upload_files(_, _, _)
upload_files(files, fs, ids) ==
    IF files = <<>> THEN [raises |-> FALSE, file_store |-> fs, file_ids |-> ids]
    ELSE IF Head(files) = "exe" THEN [raises |-> TRUE, file_store |-> fs, file_ids |-> ids]
    ELSE IF Head(files) = "err" THEN upload_files(Tail(files), fs, ids)
    ELSE upload_files(Tail(files), fs + 1, Append(ids, fs + 1))

RECURSIVE AddFiles(_, _, _)
AddFiles(db, cid, ids) ==
    IF ids = <<>> THEN db ELSE AddFiles(add_file_to_canvas(db, cid, Head(ids)), cid, Tail(ids))

\* ---------------------------------------------------------------- handlers

\* What a handler did: the response it returned (code, error, chat,
\* canvas_json, history), the prompt and the context of its LLM call, and
\* whether every write of it was committed.
Result(op, cid) ==
    [op |-> op, cid |-> cid, code |-> 0, error |-> "none", raised |-> "none",
     chat |-> "none", canvas_json |-> "null", history |-> <<>>, llm_calls |-> 0,
     prompt |-> "none", context |-> NoContext, saved |-> FALSE]

\* faulty variant: no except clause for ValueError
http_status_no_value_error(error) ==
    CASE error = "not found" -> 404
      [] error = "upload" -> 422
      [] OTHER -> 500

\* the except clauses of send_message: an HTTPException keeps its status, a
\* ValueError becomes 422, any other exception 500
http_status(error) ==
    CASE error = "not found" -> 404
      [] error = "upload" -> 422
      [] error \in {"parse", "json.loads", "response model"} -> 422
      [] OTHER -> 500

\* error is the exception the handler ends with; raised is the collaborator
\* whose call failed, if one did
Failed(r, error, raised) ==
    [r EXCEPT !.code = http_status(error), !.error = error, !.raised = raised]

Out(db, resp, n, fs, res) ==
    [db |-> db, responses |-> resp, response_count |-> n, file_store |-> fs, result |-> res]

\* faulty variant: the turn does not clear the manual_update flag
persist_without_toggle(db, cid, status, canvas_json, thread_id, fail) ==
    LET d1 == update_canvas(db, cid, GetNone(canvas_json, "Title"), thread_id)
        d2 == upsert_canvas_fields(d1, cid, canvas_json)
        d4 == IF status = "created" THEN update_status(d2, cid, "drafted") ELSE d2
    IN  CASE fail = "update_canvas" -> db
          [] fail = "upsert" -> d1
          [] fail = "toggle" -> d2
          [] fail = "update_status" /\ status = "created" -> d2
          [] OTHER -> d4

\* a variant that keeps the stored fields when the validator rejects the
\* candidate
persist_valid_only(db, cid, status, canvas_json, thread_id, fail) ==
    LET d1 == update_canvas(db, cid, GetNone(canvas_json, "Title"), thread_id)
        d2 == IF validate_canvas_structure(canvas_json).is_valid
                  THEN upsert_canvas_fields(d1, cid, canvas_json)
                  ELSE d1
        d3 == toggle_manual_update(d2, cid, FALSE)
        d4 == IF status = "created" THEN update_status(d3, cid, "drafted") ELSE d3
    IN  CASE fail = "update_canvas" -> db
          [] fail = "upsert" -> d1
          [] fail = "toggle" -> d2
          [] fail = "update_status" /\ status = "created" -> d3
          [] OTHER -> d4

\* the writes of a turn, in the order of the code; the write named by fail
\* raises, and the writes before it stay committed
persist(db, cid, status, canvas_json, thread_id, fail) ==
    LET d1 == update_canvas(db, cid, GetNone(canvas_json, "Title"), thread_id)
        d2 == upsert_canvas_fields(d1, cid, canvas_json)
        d3 == toggle_manual_update(d2, cid, FALSE)
        d4 == IF status = "created" THEN update_status(d3, cid, "drafted") ELSE d3
    IN  CASE fail = "update_canvas" -> db
          [] fail = "upsert" -> d1
          [] fail = "toggle" -> d2
          [] fail = "update_status" /\ status = "created" -> d3
          [] OTHER -> d4

PersistFails(fail, status) ==
    \/ fail \in {"update_canvas", "upsert", "toggle"}
    \/ fail = "update_status" /\ status = "created"

\* chat_routes.send_message up to the call of the LLM: done is TRUE when the
\* handler has returned or raised before it, and out is then what it left.
\* fail names the call that raises, if any.
send_message_prepare(db, resp, n, fs, cid, message, files, fail) ==
    LET r0 == Result("send_message", cid)
        Done(o) == [done |-> TRUE, message |-> message, out |-> o, prompt |-> <<>>,
                    prev |-> NoRef,
                    status |-> "none", old_thread_id |-> NoRef]
    IN
    IF Strip(message) = <<>>
        THEN Done(Out(db, resp, n, fs, [r0 EXCEPT !.code = 200, !.chat = "fallback"]))
    ELSE IF get_canvas(db, cid) = <<>>
        THEN Done(Out(db, resp, n, fs, Failed(r0, "not found", "none")))
    ELSE
    LET canvas_row == get_canvas(db, cid)[1]
        is_first_message == canvas_row.status = "created"
        up == upload_files(files, fs, <<>>)
    IN
    IF up.raises THEN Done(Out(db, resp, n, up.file_store, Failed(r0, "upload", "none")))
    ELSE IF up.file_ids # <<>> /\ fail = "add_file"
        THEN Done(Out(db, resp, n, up.file_store, Failed(r0, "database", "database")))
    ELSE
    LET db1 == AddFiles(db, cid, up.file_ids)
        manual_update_set == ~is_first_message /\ check_manual_update(db1, cid)
    IN
    IF manual_update_set /\ get_canvas_fields(db1, cid) = <<>>
        THEN Done(Out(db1, resp, n, up.file_store, Failed(r0, "no fields", "none")))
    ELSE IF manual_update_set /\ \E col \in {"kpis", "key_features", "risks", "use_cases"} :
                                    LoadsRaises(Fields(db1, cid)[col])
        THEN Done(Out(db1, resp, n, up.file_store, Failed(r0, "json.loads", "none")))
    ELSE IF ~is_first_message /\ RefinementPromptCallRaises
        \* the context was built and handed over before the call raised
        THEN Done(Out(db1, resp, n, up.file_store,
                      Failed([r0 EXCEPT !.context =
                                  IF manual_update_set
                                      THEN current_canvas_context(Fields(db1, cid))
                                      ELSE NoContext],
                             "TypeError", "none")))
    ELSE
    [done |-> FALSE, message |-> message,
     out |-> Out(db1, resp, n, up.file_store,
                 [r0 EXCEPT !.llm_calls = 1,
                            !.prompt = IF is_first_message THEN "initial" ELSE "refinement",
                            !.context = IF manual_update_set
                                            THEN current_canvas_context(Fields(db1, cid))
                                            ELSE NoContext]),
     prompt |-> IF is_first_message THEN get_initial_canvas_prompt(message)
                ELSE get_refinement_prompt(message),
     prev |-> IF is_first_message THEN NoRef ELSE canvas_row.thread_id,
     status |-> canvas_row.status,
     old_thread_id |-> canvas_row.thread_id]

\* a turn that asks the LLM again when the call raised or the answer did
\* not parse
send_message_complete_retrying(pre, cid, llm, fail) ==
    LET n == pre.out.response_count
        again == llm.raises \/ ~parse_dual_response(llm.text).ok
        made == IF llm.raises THEN {}
                ELSE {Response(n + 1, pre.prev, pre.prompt, llm.text, pre.message)}
                     \cup IF again
                              THEN {Response(n + 2, pre.prev, pre.prompt, llm.text, pre.message)}
                              ELSE {}
    IN  Out(pre.out.db, pre.out.responses \cup made, n + Cardinality(made),
            pre.out.file_store,
            IF again
                THEN Failed([pre.out.result EXCEPT !.llm_calls = 2], "parse", "none")
                ELSE [pre.out.result EXCEPT !.code = 200, !.chat = "chat",
                                            !.canvas_json = "dict"])

\* chat_routes.send_message from the call of the LLM on.  llm is what the
\* LLM collaborator does.
send_message_complete(pre, cid, llm, fail) ==
    LET db1 == pre.out.db
        resp == pre.out.responses
        fs == pre.out.file_store
        r2 == pre.out.result
    IN
    IF llm.raises THEN Out(db1, resp, pre.out.response_count, fs, Failed(r2, "llm", "llm"))
    ELSE
    LET thread_id == pre.out.response_count + 1
        resp1 == resp \cup {Response(thread_id, pre.prev, pre.prompt, llm.text, pre.message)}
        parsed == parse_dual_response(llm.text)
    IN
    IF ~parsed.ok THEN Out(db1, resp1, thread_id, fs, Failed(r2, "parse", "none"))
    ELSE
    LET is_dict == parsed.kind = "dict"
        \* a candidate that is no object has no get(): the save is given up
        db2 == IF is_dict
                   THEN persist(db1, cid, pre.status, parsed.obj, thread_id, fail)
                   ELSE db1
        r3 == [r2 EXCEPT !.saved = is_dict /\ ~PersistFails(fail, pre.status),
                         !.raised = IF is_dict /\ PersistFails(fail, pre.status)
                                        THEN "database" ELSE "none"]
    IN
    \* the history is read from the thread_id the canvas had before the turn
    IF pre.old_thread_id # NoRef /\ fail = "retrieve"
        THEN Out(db2, resp1, thread_id, fs, Failed(r3, "llm", "llm"))
    ELSE IF ~is_dict
        \* MessageResponse takes an object or None as canvas_json
        THEN Out(db2, resp1, thread_id, fs, Failed(r3, "response model", "none"))
    ELSE Out(db2, resp1, thread_id, fs,
             [r3 EXCEPT !.code = 200, !.chat = "chat", !.canvas_json = "dict"])

\* chat_routes.send_message with ResponsesService.send_message inlined
send_message(db, resp, n, fs, cid, message, files, llm, fail) ==
    LET pre == send_message_prepare(db, resp, n, fs, cid, message, files, fail)
    IN  IF pre.done THEN pre.out ELSE send_message_complete(pre, cid, llm, fail)

\* chat_routes.save_canvas; canvas_json is the request body FastAPI has
\* validated into a CanvasFieldList
save_canvas(db, cid, canvas_json, fail) ==
    LET r0 == Result("save_canvas", cid)
    IN
    IF get_canvas(db, cid) = <<>> THEN [db |-> db, result |-> [r0 EXCEPT !.code = 404, !.error = "not found"]]
    ELSE
    LET canvas_row == get_canvas(db, cid)[1]
        canvas_dict == model_dump(canvas_json)
        title == GetNone(canvas_dict, "Title")
        sync == title # Null /\ title # Str("") /\ title # canvas_row.name
        d1 == IF sync THEN update_canvas(db, cid, title, canvas_row.thread_id) ELSE db
        d2 == upsert_canvas_fields(d1, cid, canvas_dict)
        d3 == toggle_manual_update(d2, cid, TRUE)
    IN
    IF sync /\ fail = "update_canvas" THEN [db |-> db, result |-> [r0 EXCEPT !.code = 500, !.error = "database", !.raised = "database"]]
    ELSE IF fail = "upsert" THEN [db |-> d1, result |-> [r0 EXCEPT !.code = 500, !.error = "database", !.raised = "database"]]
    ELSE IF fail = "toggle" THEN [db |-> d2, result |-> [r0 EXCEPT !.code = 500, !.error = "database", !.raised = "database"]]
    ELSE [db |-> d3, result |-> [r0 EXCEPT !.code = 200, !.saved = TRUE]]

\* the save_canvas route: FastAPI validates the body into a CanvasFieldList
\* before the handler runs and answers 422 when it does not validate
save_canvas_request(db, cid, canvas_json, fail) ==
    IF ~model_validate(canvas_json)
        THEN [db |-> db,
              result |-> [Result("save_canvas", cid) EXCEPT !.code = 422,
                                                           !.error = "validation"]]
        ELSE save_canvas(db, cid, canvas_json, fail)

\* chat_routes.get_conversation_history
get_history(db, resp, cid, fail) ==
    LET r0 == Result("get_conversation_history", cid)
    IN
    IF get_canvas(db, cid) = <<>> THEN [r0 EXCEPT !.code = 404, !.error = "not found"]
    ELSE IF get_canvas(db, cid)[1].thread_id # NoRef /\ fail = "retrieve"
        THEN [r0 EXCEPT !.code = 500, !.error = "llm", !.raised = "llm"]
    ELSE [r0 EXCEPT !.code = 200,
                    !.history = get_conversation_history(resp, get_canvas(db, cid)[1].thread_id)]

\* canvas_routes.delete_canvas: archive, restore or delete
canvas_action(db, cid, action, fail) ==
    LET r0 == Result(action, cid)
    IN
    \* the 404 raised here is caught by the handler's own except clause
    IF ~HasCanvas(db, cid)
        THEN [db |-> db, result |-> [r0 EXCEPT !.code = 500, !.error = "not found"]]
    ELSE IF (action = "delete" /\ fail = "delete") \/ (action # "delete" /\ fail = "update_status")
        THEN [db |-> db, result |-> [r0 EXCEPT !.code = 500, !.error = "database", !.raised = "database"]]
    ELSE IF action = "archive"
        THEN [db |-> update_status(db, cid, "archived"), result |-> [r0 EXCEPT !.code = 200]]
    ELSE IF action = "restore"
        THEN [db |-> update_status(db, cid, "drafted"), result |-> [r0 EXCEPT !.code = 200]]
    ELSE [db |-> delete_canvas(db, cid), result |-> [r0 EXCEPT !.code = 200]]

\* ------------------------------------------------------------------ inputs
Messages ==
    {<<>>, <<SP>>, <<"hello">>, <<"hello", PLEASE_GENERATE, "more">>}

RawTexts ==
    {<<CHAT_MARKER, "hi", JSON_MARKER, LBRACE, "K1", RBRACE>>,
     <<"hi", JSON_MARKER, FENCE_JSON, SP, LBRACE, "K3", RBRACE, SP, FENCE, "trailing">>,
     <<CHAT_MARKER, "hi">>,
     <<CHAT_MARKER, "hi", JSON_MARKER, LBRACE, "K1">>}

LlmRaises == [raises |-> TRUE, text |-> <<>>]

LlmOutcomes ==
    {LlmRaises} \cup {[raises |-> FALSE, text |-> t] : t \in RawTexts}

FileLists == {<<>>, <<"pdf">>, <<"pdf", "exe">>}

\* the request bodies of save_canvas that pass CanvasFieldList validation
Edit(title) == [Full(title) EXCEPT !["Non Functional Requirements"] = Dict("nfr")]

EditBodies ==
    {[Edit("T2") EXCEPT !["Relevant Facts"] = List("str", 1)],
     [Edit("T2") EXCEPT !["Governance"] = Absent]}

\* request bodies CanvasFieldList rejects: a required field is missing
RejectedBodies == {[Edit("T2") EXCEPT !["Title"] = Absent]}

SaveBodies == EditBodies \cup RejectedBodies

\* the call of a handler that raises: a write of the store, or a call to a
\* collaborator ("none": every call returns)
PrepareFails == {"none", "add_file"}
CompleteFails == {"none", "update_canvas", "upsert", "toggle", "update_status", "retrieve"}
SaveFails == {"none", "update_canvas", "upsert", "toggle"}
HistoryFails == {"none", "retrieve"}
ActionFails == {"none", "update_status", "delete"}
CreateFails == {"none", "insert"}

\* ----------------------------------------------------------------- actions
\* no parser or validator call is under study
NoCall == [fn |-> "none", arg |-> <<>>]

\* the handler instances that can run at once, and what an instance that
\* runs no request holds
Procs == {"p1", "p2"}
Idle ==
    [pc |-> "idle", op |-> "none", req |-> 0, row |-> <<>>, context |-> NoContext,
     prompt |-> "none", candidate |-> <<>>, thread_id |-> NoRef]
\* what the requests have done so far: how many were started and the
\* operation that wrote the fields last
NoLog == [started |-> 0, fields_by |-> "none"]

StoreInit ==
    /\ canvas = [c \in CanvasIds |-> <<>>]
    /\ canvas_fields = [c \in CanvasIds |-> <<>>]
    /\ manual_update = [c \in CanvasIds |-> FALSE]
    /\ issued = {}
    /\ responses = {}
    /\ response_count = 0
    /\ file_store = 0
    /\ last = Result("init", "c1")

Init ==
    /\ StoreInit
    /\ call = NoCall
    /\ returned = <<>>
    /\ proc = [p \in Procs |-> Idle]
    /\ log = NoLog

SetDB(db) ==
    /\ canvas' = db.canvas
    /\ canvas_fields' = db.canvas_fields
    /\ manual_update' = db.manual_update

\* the create operation: a canvas id is never issued twice
CreateCanvas(cid, fail) ==
    /\ cid \notin issued
    /\ IF fail = "insert"
          THEN /\ UNCHANGED <<canvas, canvas_fields, manual_update, issued>>
               /\ last' = [Result("create_canvas", cid) EXCEPT !.code = 500, !.error = "database", !.raised = "database"]
          ELSE /\ SetDB(create_canvas(DB, cid, Str("Untitled Canvas"), "created"))
               /\ issued' = issued \cup {cid}
               /\ last' = [Result("create_canvas", cid) EXCEPT !.code = 200]
    /\ UNCHANGED <<responses, response_count, file_store, call, returned, proc, log>>

\* a call that is named to fail is one the handler makes: when the handler
\* never reaches it, the run is the one with fail = "none"
Injected(fail, result) == fail = "none" \/ result.raised # "none"

Turn(out) ==
    /\ SetDB(out.db)
    /\ responses' = Referenced(out.responses, out.db)
    /\ response_count' = out.response_count
    /\ file_store' = out.file_store
    /\ last' = out.result
    /\ UNCHANGED <<issued, call, returned, proc, log>>

\* a turn that ends before the call of the LLM
SendMessageEarly(cid, message, files, fail) ==
    /\ file_store + Cardinality({i \in 1..Len(files) : files[i] = "pdf"}) <= MaxUploads
    /\ \E pre \in {send_message_prepare(DB, responses, response_count, file_store, cid,
                                          message, files, fail)} :
           pre.done /\ Injected(fail, pre.out.result) /\ Turn(pre.out)

\* a turn that calls the LLM
SendMessage(cid, message, files) ==
    /\ response_count < MaxResponses
    /\ file_store + Cardinality({i \in 1..Len(files) : files[i] = "pdf"}) <= MaxUploads
    /\ \E pre \in {send_message_prepare(DB, responses, response_count, file_store, cid,
                                          message, files, "none")} :
           /\ ~pre.done
           /\ \E llm \in LlmOutcomes, fail \in CompleteFails :
                  /\ llm.raises => fail = "none"
                  /\ \E out \in {send_message_complete(pre, cid, llm, fail)} :
                         Injected(fail, out.result) /\ Turn(out)

SaveCanvas(cid, canvas_json, fail) ==
    /\ \E out \in {save_canvas_request(DB, cid, canvas_json, fail)} :
           /\ Injected(fail, out.result)
           /\ SetDB(out.db)
           /\ last' = out.result
    /\ UNCHANGED <<issued, responses, response_count, file_store, call, returned, proc, log>>

GetHistory(cid, fail) ==
    /\ \E result \in {get_history(DB, responses, cid, fail)} :
           Injected(fail, result) /\ last' = result
    /\ UNCHANGED <<canvas, canvas_fields, manual_update, issued, responses, response_count,
                   file_store, call, returned, proc, log>>

CanvasAction(cid, action, fail) ==
    /\ \E out \in {canvas_action(DB, cid, action, fail)} :
           /\ Injected(fail, out.result)
           /\ SetDB(out.db)
           /\ responses' = Referenced(responses, out.db)
           /\ last' = out.result
    /\ UNCHANGED <<issued, response_count, file_store, call, returned, proc, log>>

Next ==
    \/ \E cid \in CanvasIds, fail \in CreateFails : CreateCanvas(cid, fail)
    \/ \E cid \in CanvasIds, message \in Messages, files \in FileLists,
          fail \in PrepareFails :
            SendMessageEarly(cid, message, files, fail)
    \/ \E cid \in CanvasIds, message \in Messages, files \in FileLists :
            SendMessage(cid, message, files)
    \/ \E cid \in CanvasIds, canvas_json \in SaveBodies, fail \in SaveFails :
            SaveCanvas(cid, canvas_json, fail)
    \/ \E cid \in CanvasIds, fail \in HistoryFails : GetHistory(cid, fail)
    \/ \E cid \in CanvasIds, action \in {"archive", "restore", "delete"},
          fail \in ActionFails : CanvasAction(cid, action, fail)

Spec == Init /\ [][Next]_vars

\* ------------------------------------------- the parser and the validator
\* The pure functions of utils/json_parser.py, each called once on an input
\* drawn from a bounded set: call is the function and its argument,
\* returned is <<>> until the call has returned and <<value>> after.
MaxTextLen == 4
MaxWrap == 2
MaxDefects == 2

Seqs(S, n) == UNION {[1..m -> S] : m \in 0..n}

\* raw LLM texts: up to MaxTextLen markers and words, and in any place of
\* them nothing, a JSON object or an object cut short
TextTokens == {CHAT_MARKER, JSON_MARKER, "hi"}
ObjectTexts == {<<>>, <<LBRACE, "K1", RBRACE>>, <<LBRACE, "K1">>}
DualTexts(len) ==
    {SubSeq(t, 1, i) \o o \o SubSeq(t, i + 1, Len(t)) :
        <<t, i>> \in {<<u, j>> \in Seqs(TextTokens, len) \X (0..len) : j <= Len(u)},
        o \in ObjectTexts}

\* JSON segments: an object between what may come before and after it
PrefixTokens == {SP, "hi", FENCE_JSON, FENCE, LBRACE}
SuffixTokens == {SP, "hi", FENCE, RBRACE}
JsonText(prefix, body, suffix) == prefix \o <<LBRACE, body, RBRACE>> \o suffix
JsonTexts(wrap) ==
    {JsonText(prefix, body, suffix) :
        prefix \in Seqs(PrefixTokens, wrap), body \in JsonBodies,
        suffix \in Seqs(SuffixTokens, wrap)}

\* candidates: the minimal well-formed canvas (every required key, empty
\* lists) with up to MaxDefects keys given another value or taken away
Minimal ==
    [k \in AllKeys |->
        IF k \in {"Title", "Problem Statement"} THEN Str("x")
        ELSE IF k \in SeqRange(array_fields) THEN List("", 0)
        ELSE IF k = "Governance" THEN Dict("gov")
        ELSE Absent]
CandidateValues == {Absent, Null, Str("x"), List("", 0), List("str", 1), Dict("gov")}
Candidates(defects) ==
    UNION {{[k \in AllKeys |-> IF k \in D THEN f[k] ELSE Minimal[k]] :
                f \in [D -> CandidateValues]} :
           D \in {X \in SUBSET SeqRange(required_fields) : Cardinality(X) <= defects}}

\* JSON segments that hold one JSON value, bare or fenced, and the values
\* parse_json_from_text returns for them
ValueTexts ==
    {pre \o <<v>> \o post :
        pre \in {<<>>, <<FENCE_JSON>>}, post \in {<<>>, <<FENCE>>},
        v \in {"[1]", "42", "null", "hi"}}
    \cup {<<LBRACE, body, RBRACE>> : body \in JsonBodies}
    \cup {<<LBRACE, RBRACE>>}
ParsedValues == {j \in {parse_json_from_text(t) : t \in ValueTexts} : j.ok}

Calls(len, wrap, defects) ==
    {[fn |-> "parse_dual_response", arg |-> t] : t \in DualTexts(len)}
    \cup {[fn |-> "parse_json_from_text", arg |-> t] : t \in JsonTexts(wrap)}
    \cup {[fn |-> "validate_canvas_structure", arg |-> o] : o \in Candidates(defects)}
    \cup {[fn |-> "validate_canvas_structure_value", arg |-> j] : j \in ParsedValues}

FnInit ==
    /\ StoreInit
    /\ call \in Calls(MaxTextLen, MaxWrap, MaxDefects)
    /\ returned = <<>>
    /\ proc = [p \in Procs |-> Idle]
    /\ log = NoLog

StoreUnchanged ==
    UNCHANGED <<canvas, canvas_fields, manual_update, issued, responses, response_count,
                file_store, last>>

ParseDualResponse ==
    /\ call.fn = "parse_dual_response" /\ returned = <<>>
    /\ returned' = <<parse_dual_response(call.arg)>>
    /\ UNCHANGED <<call, proc, log>> /\ StoreUnchanged

ParseJsonFromText ==
    /\ call.fn = "parse_json_from_text" /\ returned = <<>>
    /\ returned' = <<parse_json_from_text(call.arg)>>
    /\ UNCHANGED <<call, proc, log>> /\ StoreUnchanged

ValidateCanvasStructure ==
    /\ call.fn = "validate_canvas_structure" /\ returned = <<>>
    /\ returned' = <<validate_canvas_structure(call.arg)>>
    /\ UNCHANGED <<call, proc, log>> /\ StoreUnchanged

\* the validator called with what the parser returned, as the route does
ValidateParsedValue ==
    /\ call.fn = "validate_canvas_structure_value" /\ returned = <<>>
    /\ returned' = <<validate_canvas_structure_value(call.arg)>>
    /\ UNCHANGED <<call, proc, log>> /\ StoreUnchanged

FnNext ==
    \/ ParseDualResponse
    \/ ParseJsonFromText
    \/ ValidateCanvasStructure
    \/ ValidateParsedValue

FnSpec == FnInit /\ [][FnNext]_vars

\* ------------------------------------------------- requests that run at once
\* Two handler instances work on canvas c1 against the one store.  Every
\* PostgresStore method takes its own connection and commits on its own, and
\* no handler holds a lock or a transaction over several of them, so the
\* store calls of two requests can follow each other in any order: a
\* request is one step per store call or LLM call it makes.
MaxRequests == 3
RaceCanvas == "c1"
RaceMessage == <<"hello">>
RaceTexts ==
    {<<CHAT_MARKER, "hi", JSON_MARKER, LBRACE, "K1", RBRACE>>,
     <<CHAT_MARKER, "hi", JSON_MARKER, LBRACE, "K2", RBRACE>>,
     <<CHAT_MARKER, "hi">>}

EmptyDB ==
    [canvas |-> [c \in CanvasIds |-> <<>>],
     canvas_fields |-> [c \in CanvasIds |-> <<>>],
     manual_update |-> [c \in CanvasIds |-> FALSE]]

\* the canvas has been created and nothing else has happened
RaceInit ==
    /\ canvas = create_canvas(EmptyDB, RaceCanvas, Str("Untitled Canvas"), "created").canvas
    /\ canvas_fields = EmptyDB.canvas_fields
    /\ manual_update = EmptyDB.manual_update
    /\ issued = {RaceCanvas}
    /\ responses = {}
    /\ response_count = 0
    /\ file_store = 0
    /\ last = [Result("create_canvas", RaceCanvas) EXCEPT !.code = 200]
    /\ call = NoCall
    /\ returned = <<>>
    /\ proc = [p \in Procs |-> Idle]
    /\ log = NoLog

Free(p) == proc[p].pc \in {"idle", "done"}
Answered(op) == [Result(op, RaceCanvas) EXCEPT !.code = 200, !.saved = TRUE]

\* send_message: the canvas row is read
BeginTurn(p) ==
    /\ Free(p) /\ log.started < MaxRequests
    /\ get_canvas(DB, RaceCanvas) # <<>>
    /\ proc' = [proc EXCEPT ![p] = [Idle EXCEPT !.pc = "check", !.op = "send_message",
                                                 !.req = log.started + 1,
                                                 !.row = get_canvas(DB, RaceCanvas)]]
    /\ log' = [log EXCEPT !.started = @ + 1]
    /\ UNCHANGED <<call, returned>> /\ StoreUnchanged

\* send_message from the manual_update check to the prompt, with the row
\* that was read before
CheckManualUpdate(p) ==
    /\ proc[p].pc = "check"
    /\ \E pre \in {send_message_prepare([DB EXCEPT !.canvas[RaceCanvas] = proc[p].row],
                                          responses, response_count, file_store,
                                          RaceCanvas, RaceMessage, <<>>, "none")} :
           IF pre.done
               THEN /\ proc' = [proc EXCEPT ![p] = Idle]
                    /\ last' = pre.out.result
               ELSE /\ proc' = [proc EXCEPT ![p].pc = "llm",
                                            ![p].context = pre.out.result.context,
                                            ![p].prompt = pre.out.result.prompt]
                    /\ UNCHANGED last
    /\ UNCHANGED <<canvas, canvas_fields, manual_update, issued, responses, response_count,
                   file_store, call, returned, log>>

\* ResponsesService.send_message: the request to the LLM and the parsing of
\* its answer
CallLlm(p, text) ==
    /\ proc[p].pc = "llm"
    /\ LET row == proc[p].row[1]
           is_first_message == row.status = "created"
           id == response_count + 1
           parsed == parse_dual_response(text)
       IN  /\ response_count' = id
           /\ responses' = responses \cup
                  {Response(id, IF is_first_message THEN NoRef ELSE row.thread_id,
                            IF is_first_message
                                THEN get_initial_canvas_prompt(RaceMessage)
                                ELSE get_refinement_prompt(RaceMessage),
                            text, RaceMessage)}
           /\ IF parsed.ok /\ parsed.kind = "dict"
                  THEN /\ proc' = [proc EXCEPT ![p].pc = "update_canvas",
                                               ![p].candidate = <<parsed.obj>>,
                                               ![p].thread_id = id]
                       /\ UNCHANGED last
                  ELSE /\ proc' = [proc EXCEPT ![p] = Idle]
                       /\ last' = Failed([Result("send_message", RaceCanvas)
                                             EXCEPT !.llm_calls = 1], "parse", "none")
    /\ UNCHANGED <<canvas, canvas_fields, manual_update, issued, file_store, call,
                   returned, log>>

\* save_canvas: the canvas row is read and the body dumped
BeginSave(p, canvas_json) ==
    /\ Free(p) /\ log.started < MaxRequests
    /\ get_canvas(DB, RaceCanvas) # <<>>
    /\ LET canvas_row == get_canvas(DB, RaceCanvas)[1]
           canvas_dict == model_dump(canvas_json)
           title == GetNone(canvas_dict, "Title")
           sync == title # Null /\ title # Str("") /\ title # canvas_row.name
       IN  proc' = [proc EXCEPT ![p] =
                       [Idle EXCEPT !.pc = IF sync THEN "update_canvas" ELSE "upsert",
                                    !.op = "save_canvas",
                                    !.req = log.started + 1,
                                    !.row = get_canvas(DB, RaceCanvas),
                                    !.candidate = <<canvas_dict>>,
                                    !.thread_id = canvas_row.thread_id]]
    /\ log' = [log EXCEPT !.started = @ + 1]
    /\ UNCHANGED <<call, returned>> /\ StoreUnchanged

\* update_canvas of either handler, committed
WriteCanvas(p) ==
    /\ proc[p].pc = "update_canvas"
    /\ SetDB(update_canvas(DB, RaceCanvas, GetNone(proc[p].candidate[1], "Title"),
                           proc[p].thread_id))
    /\ proc' = [proc EXCEPT ![p].pc = "upsert"]
    /\ UNCHANGED <<issued, responses, response_count, file_store, last, call, returned, log>>

\* upsert_canvas_fields of either handler, committed
WriteFields(p) ==
    /\ proc[p].pc = "upsert"
    /\ SetDB(upsert_canvas_fields(DB, RaceCanvas, proc[p].candidate[1]))
    /\ proc' = [proc EXCEPT ![p].pc = "toggle"]
    /\ log' = [log EXCEPT !.fields_by = proc[p].op]
    /\ UNCHANGED <<issued, responses, response_count, file_store, last, call, returned>>

\* toggle_manual_update, committed: FALSE by a turn, TRUE by save_canvas,
\* which answers after it; so does a turn that did not read status created
WriteFlag(p) ==
    /\ proc[p].pc = "toggle"
    /\ SetDB(toggle_manual_update(DB, RaceCanvas, proc[p].op = "save_canvas"))
    /\ IF proc[p].op = "send_message" /\ proc[p].row[1].status = "created"
          THEN /\ proc' = [proc EXCEPT ![p].pc = "status"]
               /\ UNCHANGED last
          ELSE /\ proc' = [proc EXCEPT ![p].pc = "done"]
               /\ last' = Answered(proc[p].op)
    /\ UNCHANGED <<issued, responses, response_count, file_store, call, returned, log>>

\* update_status of a turn that read status created, committed; the turn
\* answers
WriteStatus(p) ==
    /\ proc[p].pc = "status"
    /\ SetDB(update_status(DB, RaceCanvas, "drafted"))
    /\ proc' = [proc EXCEPT ![p].pc = "done"]
    /\ last' = Answered(proc[p].op)
    /\ UNCHANGED <<issued, responses, response_count, file_store, call, returned, log>>

RaceNext ==
    \/ \E p \in Procs : BeginTurn(p)
    \/ \E p \in Procs : CheckManualUpdate(p)
    \/ \E p \in Procs, text \in RaceTexts : CallLlm(p, text)
    \/ \E p \in Procs, canvas_json \in EditBodies : BeginSave(p, canvas_json)
    \/ \E p \in Procs : WriteCanvas(p)
    \/ \E p \in Procs : WriteFields(p)
    \/ \E p \in Procs : WriteFlag(p)
    \/ \E p \in Procs : WriteStatus(p)

RaceSpec == RaceInit /\ [][RaceNext]_vars

\* ------------------------------------------------------------- properties
\* a step is the call of the handler last' names
TurnOn(c) == last'.op = "send_message" /\ last'.cid = c

\* a turn that returned 200 and committed every one of its writes
SuccessfulTurnOn(c) == TurnOn(c) /\ last'.code = 200 /\ last'.saved

StatusOf(cv, c) == cv[c][1].status
ThreadOf(cv, c) == cv[c][1].thread_id
FilesOf(cv, c) == cv[c][1].file_ids

IsPrefix(s, t) == Len(s) <= Len(t) /\ SubSeq(t, 1, Len(s)) = s

C2_ManualEditReachesPrompt ==
    [][\A c \in CanvasIds :
        (/\ TurnOn(c) /\ last'.chat # "fallback"
         /\ last'.error # "upload" /\ last'.raised = "none"
         /\ canvas[c] # <<>> /\ StatusOf(canvas, c) = "drafted" /\ manual_update[c])
        => /\ last'.llm_calls = 1
           /\ last'.prompt = "refinement"
           /\ last'.context # NoContext
           /\ (last'.code = 200 => ~manual_update'[c])]_vars

\* C3 as stated: a turn whose LLM output cannot be parsed returns 422 and
\* leaves the canvas row (file references included), the fields and the
\* manual_update flag as they were.
C3_ParseFailureChangesNothing ==
    [][\A c \in CanvasIds :
        (TurnOn(c) /\ last'.error = "parse")
        => /\ last'.code = 422
           /\ UNCHANGED <<canvas, canvas_fields, manual_update>>]_vars

\* C3 amended: a turn whose LLM output cannot be parsed returns 422 and
\* leaves status, title, thread_id, fields and the manual_update flag as
\* they were; the file references recorded before the call of the LLM stay.
C3_ParseFailureKeepsCanvas ==
    [][\A c \in CanvasIds :
        (TurnOn(c) /\ last'.error = "parse")
        => /\ last'.code = 422
           /\ canvas'[c] # <<>>
           /\ canvas'[c] = <<[canvas[c][1] EXCEPT !.file_ids = FilesOf(canvas', c)]>>
           /\ IsPrefix(FilesOf(canvas, c), FilesOf(canvas', c))
           /\ UNCHANGED <<canvas_fields, manual_update>>]_vars

\* a parse failure on a canvas that has fields and a file reference
C3_Witness ==
    /\ last.op = "send_message" /\ last.error = "parse" /\ last.code = 422
    /\ canvas[last.cid] # <<>> /\ FilesOf(canvas, last.cid) # <<>>

WhitespaceOnly(message) == \A i \in 1..Len(message) : IsSpace(message[i])

\* C4: in every reachable state, for every canvas id (known or not), a turn
\* with an empty or whitespace-only message returns 200 with the fallback
\* chat and a null canvas, calls no LLM, and leaves the store, the responses
\* and the file store as they are, whatever files come with it.
C4_EmptyMessageFallback ==
    \A c \in CanvasIds, message \in {m \in Messages : WhitespaceOnly(m)},
       files \in FileLists, llm \in LlmOutcomes, fail \in PrepareFails :
        send_message(DB, responses, response_count, file_store, c, message, files,
                     llm, fail)
        = Out(DB, responses, response_count, file_store,
              [Result("send_message", c) EXCEPT !.code = 200, !.chat = "fallback"])

\* the fallback returned for a drafted canvas
C4_Witness ==
    /\ last.op = "send_message" /\ last.chat = "fallback" /\ last.llm_calls = 0
    /\ canvas[last.cid] # <<>> /\ StatusOf(canvas, last.cid) = "drafted"

\* C5: the manual_update flag of a canvas goes from false to true only in a
\* save_canvas that returns 200, goes from true to false (while the canvas
\* exists) only in a successful turn, and is false after every successful
\* turn.
C5_ManualUpdateWriters ==
    [][\A c \in CanvasIds :
        /\ (~manual_update[c] /\ manual_update'[c])
               => (last'.op = "save_canvas" /\ last'.cid = c /\ last'.code = 200)
        /\ (manual_update[c] /\ ~manual_update'[c] /\ canvas'[c] # <<>>)
               => SuccessfulTurnOn(c)
        /\ SuccessfulTurnOn(c) => ~manual_update'[c]]_vars

ListColumns ==
    {"objectives", "kpis", "success_criteria", "key_features", "risks", "assumptions",
     "use_cases"}

\* C6: a canvas whose status is "drafted" has a fields row in which title
\* and problem_statement are strings, every list section is a list,
\* non_functional_requirements is an object and governance is an object.
C6_DraftedHasTypedFields ==
    \A c \in CanvasIds :
        (canvas[c] # <<>> /\ StatusOf(canvas, c) = "drafted")
        => /\ canvas_fields[c] # <<>>
           /\ IsStr(canvas_fields[c][1].title)
           /\ IsStr(canvas_fields[c][1].problem_statement)
           /\ \A col \in ListColumns : IsList(canvas_fields[c][1][col])
           /\ IsDict(canvas_fields[c][1].non_functional_requirements)
           /\ IsDict(canvas_fields[c][1].governance)

\* C7: a turn in which a collaborator fails (the LLM, or a write of the
\* store) returns 500 and leaves title, status, thread_id, fields and the
\* manual_update flag as they were.
C7_UpstreamFailureIsAtomic ==
    [][\A c \in CanvasIds :
        (TurnOn(c) /\ last'.raised # "none" /\ canvas[c] # <<>>)
        => /\ last'.code = 500
           /\ canvas'[c] # <<>>
           /\ canvas'[c] = <<[canvas[c][1] EXCEPT !.file_ids = FilesOf(canvas', c)]>>
           /\ UNCHANGED <<canvas_fields, manual_update>>]_vars

\* the history of the claim: from the oldest response of the chain to the
\* newest, the literal message of the user and the chat segment of the output
RECURSIVE LiteralWalk(_, _)
LiteralWalk(resp, response_id) ==
    IF response_id = NoRef THEN <<>>
    ELSE LET response == retrieve(resp, response_id)
         IN  LiteralWalk(resp, response.prev)
             \o <<Entry("user", response.message),
                  Entry("assistant", parse_dual_response(response.output).chat)>>

\* C8: get_history returns, oldest turn first, the literal message of the
\* user followed by the chat segment of the answer, for every turn of the
\* chain the canvas names.
C8_HistoryIsLiteral ==
    (last.op = "get_conversation_history" /\ last.code = 200 /\ canvas[last.cid] # <<>>)
    => last.history = LiteralWalk(responses, ThreadOf(canvas, last.cid))

\* C9: a successful turn stores a thread_id the canvas never had, and the
\* response it names has the thread_id stored before the turn as predecessor.
C9_TurnLinksToStoredRef ==
    [][\A c \in CanvasIds :
        (SuccessfulTurnOn(c) /\ canvas[c] # <<>>)
        => /\ ThreadOf(canvas', c) > response_count
           /\ retrieve(responses', ThreadOf(canvas', c)).prev = ThreadOf(canvas, c)]_vars

NotFound(op, c) == [Result(op, c) EXCEPT !.code = 404, !.error = "not found"]

C11_EditLackingSectionRejected ==
    \A c \in CanvasIds, canvas_json \in SaveBodies, fail \in SaveFails :
        (canvas[c] # <<>> /\ \E k \in SeqRange(required_fields) : canvas_json[k] = Absent)
        => save_canvas_request(DB, c, canvas_json, fail)
           = [db |-> DB,
              result |-> [Result("save_canvas", c) EXCEPT !.code = 422,
                                                          !.error = "validation"]]

\* ---------------------------------------------------------------- C12
Validated == call.fn = "validate_canvas_structure" /\ returned # <<>>
KeyAbsent(o) == \E k \in SeqRange(required_fields) : o[k] = Absent
ListHoldsNonList(o) == \E k \in SeqRange(array_fields) : o[k] # Absent /\ ~IsList(o[k])
TextHoldsNonString(o) ==
    \E k \in {"Title", "Problem Statement"} : o[k] # Absent /\ ~IsStr(o[k])
ObjectHoldsNonObject(o) == o["Governance"] # Absent /\ ~IsDict(o["Governance"])

\* C12 as stated: validate_canvas_structure returns (false, reasons) if and
\* only if a required top-level key is absent or a list-typed field holds a
\* non-list value, and (true, []) otherwise.
C12_ValidateIffMissingOrNonList ==
    Validated =>
        /\ ~returned[1].is_valid <=> (KeyAbsent(call.arg) \/ ListHoldsNonList(call.arg))
        /\ returned[1].is_valid => returned[1].errors = {}

\* C12 as the code has it: validate_canvas_structure returns (false, reasons),
\* with reasons not empty, if and only if a required top-level key is absent,
\* a list-typed field holds a non-list value, Title or Problem Statement
\* holds a non-string value, or Governance holds a non-object value; in
\* every other case, empty lists included, it returns (true, []).
C12_ValidateIffMissingOrMistyped ==
    Validated =>
        /\ ~returned[1].is_valid <=>
               \/ KeyAbsent(call.arg)
               \/ ListHoldsNonList(call.arg)
               \/ TextHoldsNonString(call.arg)
               \/ ObjectHoldsNonObject(call.arg)
        /\ returned[1].is_valid <=> returned[1].errors = {}

\* a candidate with every key present and every list a list is turned down
\* for its Title alone
C12_Witness ==
    /\ Validated
    /\ ~KeyAbsent(call.arg) /\ ~ListHoldsNonList(call.arg)
    /\ ~ObjectHoldsNonObject(call.arg)
    /\ call.arg["Title"] = Null
    /\ returned[1] = [is_valid |-> FALSE, errors |-> {<<"Title", "must be a string">>}]

\* ---------------------------------------------------------------- C13
Parsed == call.fn = "parse_dual_response" /\ returned # <<>>
Count(s, tok) == Cardinality({i \in 1..Len(s) : s[i] = tok})
ObjectAfter(s, tok) ==
    \E i \in 1..Len(s), j \in 1..Len(s) :
        /\ s[i] = tok /\ i < j /\ j + 2 <= Len(s)
        /\ s[j] = LBRACE /\ s[j + 1] \in JsonBodies /\ s[j + 2] = RBRACE

\* C13: parse_dual_response returns a chat string and a JSON object for a
\* text that holds each of the two markers exactly once and a JSON object
\* after the JSON marker, and raises for a text in which either marker is
\* missing.
C13_MarkersDecideParse ==
    Parsed =>
        /\ (/\ Count(call.arg, CHAT_MARKER) = 1
            /\ Count(call.arg, JSON_MARKER) = 1
            /\ ObjectAfter(call.arg, JSON_MARKER))
           => returned[1].ok /\ returned[1].kind = "dict"
        /\ (Count(call.arg, CHAT_MARKER) = 0 \/ Count(call.arg, JSON_MARKER) = 0)
           => ~returned[1].ok

\* ---------------------------------------------------------------- C14
Extracted == call.fn = "parse_json_from_text" /\ returned # <<>>
\* the object the segment was written around
TheBody(s) == CHOOSE body \in JsonBodies : Contains(s, body)
Loaded(body) == [ok |-> TRUE, kind |-> "dict", obj |-> JsonObject(body)]
BracesOnlyOfObject(s) == Count(s, LBRACE) = 1 /\ Count(s, RBRACE) = 1

\* C14 as stated: parse_json_from_text gives the object J whatever stands
\* around it: fences, whitespace, preamble text before it, commentary after.
C14_ExtractsThroughAnyWrapping ==
    Extracted => returned[1] = Loaded(TheBody(call.arg))

\* C14 for text around J that has no brace of its own: with fences,
\* whitespace, a preamble without '{' and a commentary without '}' around
\* it, parse_json_from_text gives the object J, the same as for J alone.
C14_ExtractsThroughBraceFreeWrapping ==
    (Extracted /\ BracesOnlyOfObject(call.arg))
    => /\ returned[1] = Loaded(TheBody(call.arg))
       /\ returned[1] = parse_json_from_text(<<LBRACE, TheBody(call.arg), RBRACE>>)

\* preamble, fences and commentary at once
C14_Witness ==
    /\ Extracted
    /\ call.arg = <<"hi", FENCE_JSON, LBRACE, "K2", RBRACE, FENCE, "hi">>
    /\ returned[1] = Loaded("K2")

C16_AtMostOneLlmRequest ==
    [][\A c \in CanvasIds :
        TurnOn(c)
        => /\ last'.llm_calls <= 1
           /\ response_count' <= response_count + last'.llm_calls
           /\ \A r \in responses' \ responses : r.id = response_count + 1]_vars

\* the answer of the one request did not parse and the turn ended there
C16_Witness ==
    /\ last.op = "send_message" /\ last.error = "parse" /\ last.code = 422
    /\ last.llm_calls = 1
    /\ response_count = 1

\* ---------------------------------------------------------------- C17
\* the status of a canvas, "deleted" when there is no row
StatusOrDeleted(cv, c) == IF cv[c] = <<>> THEN "deleted" ELSE StatusOf(cv, c)

\* C17: the status of a canvas changes only from created to drafted by a
\* turn that returns 200, from drafted to archived by archive, from archived
\* to drafted by restore and from drafted to deleted by delete (and from
\* nothing to created by create_canvas).
C17_StatusChangesAlongLifecycle ==
    [][\A c \in CanvasIds :
        StatusOrDeleted(canvas', c) # StatusOrDeleted(canvas, c)
        => \E step \in {<<"deleted", "created", "create_canvas">>,
                         <<"created", "drafted", "send_message">>,
                         <<"drafted", "archived", "archive">>,
                         <<"archived", "drafted", "restore">>,
                         <<"drafted", "deleted", "delete">>} :
               /\ StatusOrDeleted(canvas, c) = step[1]
               /\ StatusOrDeleted(canvas', c) = step[2]
               /\ last'.op = step[3] /\ last'.cid = c /\ last'.code = 200]_vars

\* ---------------------------------------------------------------- C20
\* C20: a turn one of whose files is rejected is answered 422 and has made
\* no external call: the file store holds what it held, the canvas has the
\* file references it had and the LLM was not called.
C20_RejectedFileBeforeAnyExternalCall ==
    [][\A c \in CanvasIds :
        (TurnOn(c) /\ last'.error = "upload")
        => /\ last'.code = 422
           /\ last'.llm_calls = 0
           /\ file_store' = file_store
           /\ UNCHANGED <<canvas, canvas_fields, manual_update>>]_vars

\* ---------------------------------------------------------------- C18
\* C18: in every interleaving, when the upsert of a turn replaces fields
\* that save_canvas wrote last, the prompt of that turn carried those fields
\* as its context.
C18_EditReachesPromptBeforeOverwrite ==
    [][\A p \in Procs :
        (/\ proc[p].op = "send_message"
         /\ proc[p].pc = "upsert" /\ proc'[p].pc = "toggle"
         /\ log.fields_by = "save_canvas")
        => /\ proc[p].context # NoContext
           /\ proc[p].context = current_canvas_context(Fields(DB, RaceCanvas))]_vars

\* ---------------------------------------------------------------- C19
TurnDone(p) == proc[p].pc = "done" /\ proc[p].op = "send_message"

\* what a finished turn wrote is what the store holds
HoldsWhatWasWrittenBy(p) ==
    /\ Row(DB, RaceCanvas).name = GetNone(proc[p].candidate[1], "Title")
    /\ Row(DB, RaceCanvas).thread_id = proc[p].thread_id
    /\ Row(DB, RaceCanvas).status = "drafted"
    /\ canvas_fields[RaceCanvas] = <<fields_of(proc[p].candidate[1])>>
    /\ ~manual_update[RaceCanvas]

Quiet == \A p \in Procs : Free(p)

\* the route up to the call of the service: the canvas row is read
BeginHistory(p) ==
    /\ Quiet
    /\ IF get_canvas(DB, RaceCanvas) = <<>>
          THEN /\ last' = [Result("get_conversation_history", RaceCanvas)
                               EXCEPT !.code = 404, !.error = "not found"]
               /\ proc' = [proc EXCEPT ![p] = Idle]
          ELSE /\ proc' = [proc EXCEPT ![p] =
                              [Idle EXCEPT !.pc = "walk",
                                           !.op = "get_conversation_history",
                                           !.row = get_canvas(DB, RaceCanvas),
                                           !.thread_id = get_canvas(DB, RaceCanvas)[1].thread_id]]
               /\ UNCHANGED last
    /\ UNCHANGED <<canvas, canvas_fields, manual_update, issued, responses, response_count,
                   file_store, call, returned, log>>

\* the handler has returned: its locals are gone
Returned == [Idle EXCEPT !.pc = "done", !.op = "get_conversation_history"]

\* a loop that does not move on to the previous response
WalkStepStaying(p) ==
    /\ proc[p].pc = "walk"
    /\ UNCHANGED vars

\* one test of the loop condition and, when it holds, one round: the
\* response is retrieved (the call may raise, and the route then answers
\* 500) and the walk moves to its previous_response_id; when the condition
\* fails the loop is left
WalkStep(p) ==
    /\ proc[p].pc = "walk"
    /\ \/ /\ proc[p].thread_id = NoRef
          /\ proc' = [proc EXCEPT ![p].pc = "return"]
          /\ UNCHANGED last
       \/ /\ proc[p].thread_id # NoRef
          /\ proc' = [proc EXCEPT ![p] = Returned]
          /\ last' = Failed(Result("get_conversation_history", RaceCanvas), "llm", "llm")
       \/ /\ proc[p].thread_id # NoRef
          /\ \E r \in responses : r.id = proc[p].thread_id
          /\ proc' = [proc EXCEPT ![p].thread_id = retrieve(responses, proc[p].thread_id).prev]
          /\ UNCHANGED last
    /\ UNCHANGED <<canvas, canvas_fields, manual_update, issued, responses, response_count,
                   file_store, call, returned, log>>

\* after the loop: the entries collected on the way, reversed, are returned
\* and the route answers with them
ReturnHistory(p) ==
    /\ proc[p].pc = "return"
    /\ proc' = [proc EXCEPT ![p] = Returned]
    /\ last' = [Result("get_conversation_history", RaceCanvas)
                    EXCEPT !.code = 200,
                           !.history = get_conversation_history(responses,
                                                                 proc[p].row[1].thread_id)]
    /\ UNCHANGED <<canvas, canvas_fields, manual_update, issued, responses, response_count,
                   file_store, call, returned, log>>

HistoryNext ==
    \/ Quiet /\ CreateCanvas(RaceCanvas, "none")
    \/ Quiet /\ SendMessage(RaceCanvas, RaceMessage, <<>>)
    \/ Quiet /\ \E canvas_json \in EditBodies : SaveCanvas(RaceCanvas, canvas_json, "none")
    \/ Quiet /\ \E action \in {"archive", "restore", "delete"} :
                    CanvasAction(RaceCanvas, action, "none")
    \/ \E p \in Procs : BeginHistory(p)
    \/ \E p \in Procs : WalkStep(p)
    \/ \E p \in Procs : ReturnHistory(p)

\* a loop that has been entered keeps running: every call in its body
\* returns or raises
HistorySpec ==
    Init /\ [][HistoryNext]_vars /\ \A p \in Procs : WF_vars(WalkStep(p))

\* ---------------------------------------------------------------- C21
\* the turn got as far as handing message and context to the service
ReachedService(r) == r.llm_calls = 1 \/ r.error = "TypeError"
DecodedRecords(col) == IsList(col) /\ (col.n > 0 => col.e = "obj")

\* C21: a turn that hands over to the service passes a current-canvas
\* context if and only if the canvas was not in status created and its
\* manual_update flag was set; a context that is passed has decoded records
\* in kpis, key_features, risks and use_cases and has neither governance nor
\* relevant_facts.
C21_ContextIffManualEditOnLaterTurn ==
    [][\A c \in CanvasIds :
        (TurnOn(c) /\ ReachedService(last') /\ canvas[c] # <<>>)
        => /\ last'.context # NoContext
                  <=> (StatusOf(canvas, c) # "created" /\ manual_update[c])
           /\ last'.context # NoContext
                  => /\ \A col \in {"kpis", "key_features", "risks", "use_cases"} :
                            DecodedRecords(last'.context[1][col])
                     /\ DOMAIN last'.context[1] \cap {"governance", "relevant_facts"} = {}]_vars

\* ---------------------------------------------------------------- C22
\* the reply the turn recorded against canvas c, when it did
NewReplyOn(c) ==
    {r \in responses' : r.id = response_count + 1 /\ ThreadOf(canvas', c) = r.id}
CandidateOf(r) == parse_dual_response(r.output)
InvalidCandidate(r) ==
    /\ CandidateOf(r).ok
    /\ CandidateOf(r).kind = "dict"
    /\ ~validate_canvas_structure(CandidateOf(r).obj).is_valid

C23_ValidateNeverRaises ==
    (call.fn = "validate_canvas_structure_value" /\ returned # <<>>)
    => /\ returned[1].raised = "none"
       /\ returned[1].value.is_valid \in BOOLEAN

\* ---------------------------------------------------------------- C24
\* what the handlers hand to upsert_canvas_fields: the candidate of a reply,
\* or the dump of an accepted request body
WrittenCandidates ==
    {JsonObject(b) : b \in JsonBodies} \cup {model_dump(b) : b \in EditBodies}

\* C24: whenever send_message or save_canvas changes the stored fields of a
\* canvas, the new row is fields_of(candidate) for one written candidate:
\* every column comes from the candidate, a column whose key the candidate
\* lacks holds its default, and nothing of the row before remains.
C24_UpsertReplacesWholeRecord ==
    [][\A c \in CanvasIds :
        (/\ last'.op \in {"send_message", "save_canvas"}
         /\ canvas_fields'[c] # canvas_fields[c])
        => \E o \in WrittenCandidates : canvas_fields'[c] = <<fields_of(o)>>]_vars

\* a manual edit stored over the fields of a turn: the problem statement the
\* dump does not name is NULL, though the row before held one
C24_Witness ==
    /\ last.op = "save_canvas" /\ last.saved
    /\ response_count > 0
    /\ canvas_fields[last.cid] # <<>>
    /\ canvas_fields[last.cid][1].title = Str("T2")
    /\ canvas_fields[last.cid][1].problem_statement = Null

\* ---------------------------------------------------------------- C25
Sections ==
    {"title", "problem_statement", "objectives", "kpis", "success_criteria",
     "key_features", "risks", "assumptions", "non_functional_requirements",
     "use_cases"}
StoredEmpty(v) == v \in {Null, List("", 0), Dict("empty")}

\* C25: after a save_canvas that answered 200 and whose writes all returned,
\* no section of the stored fields is NULL or empty (every accepted request
\* body submits every section with content).
C25_SavedSectionsAreStored ==
    [][\A c \in CanvasIds :
        (/\ last'.op = "save_canvas" /\ last'.cid = c
         /\ last'.code = 200 /\ last'.saved)
        => /\ canvas_fields'[c] # <<>>
           /\ \A col \in Sections : ~StoredEmpty(canvas_fields'[c][1][col])]_vars

\* ---------------------------------------------------------------- C26
\* C26: when a turn on canvas c answers 200 with a canvas_json, the stored
\* thread_id is the id of that turn's reply, the stored fields are those of
\* the candidate in that reply, and the canvas is no longer in status
\* created.
C26_SuccessMeansStored ==
    [][\A c \in CanvasIds :
        (TurnOn(c) /\ last'.code = 200 /\ last'.canvas_json = "dict")
        => /\ canvas'[c] # <<>>
           /\ ThreadOf(canvas', c) = response_count + 1
           /\ StatusOf(canvas', c) # "created"
           /\ \E r \in NewReplyOn(c) :
                  /\ CandidateOf(r).ok
                  /\ canvas_fields'[c] = <<fields_of(CandidateOf(r).obj)>>]_vars

SaveWrites(p) ==
    /\ proc[p].op = "save_canvas"
    /\ proc[p].pc \in {"update_canvas", "upsert", "toggle"}
    /\ proc'[p].pc # proc[p].pc

C29_HeaderTitleEqualsFieldsTitle ==
    [][\A c \in CanvasIds :
        (/\ last'.op \in {"send_message", "save_canvas"} /\ last'.cid = c
         /\ last'.code = 200 /\ last'.saved)
        => /\ canvas'[c] # <<>> /\ canvas_fields'[c] # <<>>
           /\ Row(DB', c).name = canvas_fields'[c][1].title]_vars

\* ---------------------------------------------------------------- C30
\* C30: every walk that get_conversation_history begins leaves its loop
\* (the condition fails at a response without predecessor, or a retrieve
\* raises), and a walk that began at a canvas without thread_id is answered
\* 200 with the empty history.
C30_HistoryWalkTerminates ==
    /\ \A p \in Procs : (proc[p].pc = "walk") ~> (proc[p].pc \in {"return", "done"})
    /\ [][\A p \in Procs :
            (/\ proc[p].pc = "return" /\ proc'[p].pc = "done"
             /\ proc[p].row[1].thread_id = NoRef)
            => (last'.code = 200 /\ last'.history = <<>>)]_vars

\* a walk over a canvas with a reply has come to its end with the reply's
\* two entries
C30_Witness ==
    \E p \in Procs :
        /\ proc[p].pc = "done" /\ proc[p].op = "get_conversation_history"
        /\ last.op = "get_conversation_history" /\ last.code = 200
        /\ Len(last.history) = 2

====
